---- MODULE Spec2Model ----
(***************************************************************************)
(* CRAWL4AI_VALIDATOR: the chat client's Session Store                     *)
(* (InMemorySessionService), Agent Client (AgentRunner), Conversation      *)
(* Controller (App) and composer (ChatInput).                              *)
(*                                                                         *)
(* Conventions.  A JavaScript string is a sequence of one-character        *)
(* strings, so that trim() and += are computed and not assumed.  An        *)
(* optional value (undefined | v) is the empty tuple << >> or the          *)
(* one-element tuple << v >>.  uuidv4()/crypto.randomUUID() are fresh      *)
(* counters.  Message.timestamp (Date.now()) is read by nothing modelled   *)
(* here and is left out of the Message record.                             *)
(***************************************************************************)
EXTENDS Integers, Sequences, FiniteSets, TLC

\* ------------------------------------------------------------------ bounds
\* turns (handleSendMessage invocations) over a run
MaxTurns == 3
\* sessions created over a run (the first one is created on mount)
MaxSessions == 2
\* provider chunks delivered over a run
MaxChunks == 2
\* turns over a run of the composer's specification
MaxComposerTurns == 2
\* messages held by one session in the store's specification
MaxHistory == 2
\* call_agent_async calls over a run of the Agent Client's cache specification
MaxRunnerCalls == 4
\* FileReaders pending at a time
MaxPendingReads == 2
\* turns over a run of the file selection's specification
MaxFileTurns == 1
\* turns over a run of the specification with fairness
MaxLiveTurns == 2

\* ------------------------------------------------------------- optionals
None == << >>
Some(v) == << v >>
IsSome(o) == o # << >>
Get(o) == o[1]

\* ---------------------------------------------------------------- strings
Whitespace == {" "}

RECURSIVE TrimStart(_)
TrimStart(s) ==
  IF s # << >> /\ Head(s) \in Whitespace THEN TrimStart(Tail(s)) ELSE s

RECURSIVE TrimEnd(_)
TrimEnd(s) ==
  IF s # << >> /\ s[Len(s)] \in Whitespace
    THEN TrimEnd(SubSeq(s, 1, Len(s) - 1))
    ELSE s

\* String.prototype.trim
Trim(s) == TrimEnd(TrimStart(s))

\* ---------------------------------------------------------------- messages
MessageRole == [USER |-> "user", ASSISTANT |-> "assistant", SYSTEM |-> "system"]

Message(id, role, content, attachment, groundingChunks) ==
  [id |-> id, role |-> role, content |-> content,
   attachment |-> attachment, groundingChunks |-> groundingChunks]

\* the canned greeting text of initNewSession
GreetingText == <<"G">>
\* the fixed user-visible error notice of handleSendMessage's catch
ErrorText == <<"E">>
\* the prompt sent in place of an empty text next to an attachment
DefaultPrompt == <<"P">>

\* ------------------------------------------------ InMemorySessionService
\* sessions : Map<string, Message[]>, a function whose domain is the set of
\* registered session ids.
getHistory(s, sessionId) ==
  IF sessionId \in DOMAIN s THEN s[sessionId] ELSE << >>

\* an addMessage that skips a message whose id the session already holds
AddMessageOnce(s, sessionId, message) ==
  LET old == getHistory(s, sessionId)
      history == IF \E i \in 1..Len(old) : old[i].id = message.id
                   THEN old ELSE Append(old, message)
  IN  [i \in DOMAIN s \cup {sessionId} |-> IF i = sessionId THEN history ELSE s[i]]

\* an addMessage that ignores a session id the store does not hold
AddMessageKnownOnly(s, sessionId, message) ==
  [i \in DOMAIN s |-> IF i = sessionId THEN Append(s[i], message) ELSE s[i]]

addMessage(s, sessionId, message) ==
  LET history == Append(getHistory(s, sessionId), message)
  IN  [i \in DOMAIN s \cup {sessionId} |-> IF i = sessionId THEN history ELSE s[i]]

\* a clearSession that empties the session and keeps it registered
ClearSessionEmptying(s, sessionId) ==
  [i \in DOMAIN s |-> IF i = sessionId THEN << >> ELSE s[i]]

\* a clearSession that drops every session
ClearSessionAll(s, sessionId) ==
  << >>

clearSession(s, sessionId) ==
  [i \in DOMAIN s \ {sessionId} |-> s[i]]

createSession(s, newId) ==
  [i \in DOMAIN s \cup {newId} |-> IF i = newId THEN << >> ELSE s[i]]

\* ------------------------------------------------------------ AgentRunner
\* chatSessions : Map<string, Chat>; a Chat is identified by a fresh number.
\* a getOrCreateChat that creates a Chat on every call
AlwaysCreateChat(cs, sessionId, freshChat) ==
  [i \in DOMAIN cs \cup {sessionId} |-> IF i = sessionId THEN freshChat ELSE cs[i]]

getOrCreateChat(cs, sessionId, freshChat) ==
  IF sessionId \notin DOMAIN cs
    THEN [i \in DOMAIN cs \cup {sessionId} |-> IF i = sessionId THEN freshChat ELSE cs[i]]
    ELSE cs

resetSession(cs, sessionId) ==
  [i \in DOMAIN cs \ {sessionId} |-> cs[i]]

\* messageContent of call_agent_async: multimodal parts or the plain text
MessageContent(userInput, attachment) ==
  IF IsSome(attachment)
    THEN [text |-> IF userInput # << >> THEN userInput ELSE DefaultPrompt,
          inlineData |-> Some([mimeType |-> Get(attachment).mimeType,
                               data |-> Get(attachment).base64])]
    ELSE [text |-> userInput, inlineData |-> None]

\* A provider chunk (GenerateContentResponse) is
\*   [text |-> optional string, grounding |-> optional list of entries],
\* grounding standing for candidates?.[0]?.groundingMetadata?.groundingChunks,
\* and an entry is [web |-> optional [uri |-> optional string, title |-> ...]].

\* responseChunk.text || ""
ChunkText(chunk) ==
  IF IsSome(chunk.text) THEN Get(chunk.text) ELSE << >>

\* an accumulator that keeps only the latest chunk's text
ReplaceText(accumulatedText, chunk) ==
  ChunkText(chunk)

\* accumulatedText += text
AccumulateText(accumulatedText, chunk) ==
  accumulatedText \o ChunkText(chunk)

\* gc.web?.uri
WebUri(gc) == IF IsSome(gc.web) THEN Get(gc.web).uri ELSE None

\* metadata.groundingChunks.filter(c => !!c.web)
WebChunks(chunk) ==
  IF IsSome(chunk.grounding)
    THEN SelectSeq(Get(chunk.grounding), LAMBDA c : IsSome(c.web))
    ELSE << >>

\* a membership test on the whole entry instead of its URI
ExistsSameEntry(groundingChunks, wc) ==
  \E i \in 1..Len(groundingChunks) : groundingChunks[i] = wc

\* groundingChunks.some(gc => gc.web?.uri === wc.web?.uri)
Exists(groundingChunks, wc) ==
  \E i \in 1..Len(groundingChunks) : WebUri(groundingChunks[i]) = WebUri(wc)

\* webChunks.forEach(wc => { if (!exists) groundingChunks.push(wc) })
RECURSIVE PushNew(_, _)
PushNew(groundingChunks, webChunks) ==
  IF webChunks = << >> THEN groundingChunks
  ELSE PushNew(IF Exists(groundingChunks, Head(webChunks))
                 THEN groundingChunks
                 ELSE Append(groundingChunks, Head(webChunks)),
               Tail(webChunks))

AccumulateGrounding(groundingChunks, chunk) ==
  PushNew(groundingChunks, WebChunks(chunk))

\* the yielded AgentResponse
AgentResponse(accumulatedText, groundingChunks) ==
  [text |-> accumulatedText,
   groundingChunks |-> IF Len(groundingChunks) > 0 THEN Some(groundingChunks) ELSE None]

\* ------------------------------------------------------------- ChatInput
MAX_FILE_SIZE_MB == 5
MAX_FILE_SIZE_BYTES == MAX_FILE_SIZE_MB * 1024 * 1024

\* a size test that rejects a file of exactly the limit
TooLargeAtLimit(file) == file.size >= MAX_FILE_SIZE_BYTES

\* file.size > MAX_FILE_SIZE_BYTES
TooLarge(file) == file.size > MAX_FILE_SIZE_BYTES

\* reader.result of readAsDataURL(file): the fields of the data URL between
\* its commas, "data:<type>;base64" and the base64 payload of the bytes.
ReadAsDataURL(file) ==
  << [scheme |-> "data", mime |-> file.type, encoding |-> "base64"],
     [base64Of |-> file.bytes] >>

\* reader.onloadend: { base64: base64String.split(',')[1], mimeType: file.type }
LoadedAttachment(file) ==
  [base64 |-> ReadAsDataURL(file)[2], mimeType |-> file.type]

\* a disabled prop that forgets the streaming status
DisabledWhileThinking(status) == status = "thinking"

\* the disabled prop App passes to ChatInput
Disabled(status) == status = "thinking" \/ status = "streaming"

\* a condition that tests the raw input instead of the trimmed one
SubmitAllowedUntrimmed(in, att, disabled) ==
  (in # << >> \/ IsSome(att)) /\ ~disabled

\* the condition of handleSubmit
SubmitAllowed(in, att, disabled) ==
  (Trim(in) # << >> \/ IsSome(att)) /\ ~disabled

\* -------------------------------------------------------------------- App
\* the greeting Message of initNewSession
Greeting(newSessionId) ==
  Message(<<"greeting", newSessionId>>, MessageRole.ASSISTANT, GreetingText, None, None)

UserMsg(turn, content, att) ==
  Message(<<"user", turn>>, MessageRole.USER, content, att, None)

\* currentAssistantMsg as first built by handleSendMessage
EmptyAssistantMsg(turn) ==
  Message(<<"assistant", turn>>, MessageRole.ASSISTANT, << >>, None, None)

ErrorMsg(turn) ==
  Message(<<"error", turn>>, MessageRole.SYSTEM, ErrorText, None, None)

\* currentAssistantMsg = {...currentAssistantMsg, content: chunk.text,
\*                        groundingChunks: chunk.groundingChunks}
FoldSnapshot(currentAssistantMsg, response) ==
  [currentAssistantMsg EXCEPT !.content = response.text,
                              !.groundingChunks = response.groundingChunks]

\* the snapshot updater of handleSendMessage: append after a user message,
\* otherwise replace the last displayed message
Splice(messages, currentAssistantMsg) ==
  LET lastMsg == messages[Len(messages)]
  IN  IF lastMsg.role = MessageRole.USER
        THEN Append(messages, currentAssistantMsg)
        ELSE [messages EXCEPT ![Len(messages)] = currentAssistantMsg]

\* a catch updater that puts the error message in place of the last message
ErrorUpdateReplacing(prev, errorMsg) ==
  [prev EXCEPT !.messages = [prev.messages EXCEPT ![Len(prev.messages)] = errorMsg],
               !.status = "error"]

\* a catch updater that appends the error message and leaves the status
ErrorUpdateKeepingStatus(prev, errorMsg) ==
  [prev EXCEPT !.messages = Append(@, errorMsg)]

\* the updater of handleSendMessage's catch
ErrorUpdate(prev, errorMsg) ==
  [prev EXCEPT !.messages = Append(@, errorMsg), !.status = "error"]

\* ------------------------------------------------------------------ inputs
\* texts the user types into the composer
UserInputs == { << >>, <<" ">>, <<" ", "a", " ">> }

\* files the user selects
PngFile == [name |-> "scan.png", size |-> MAX_FILE_SIZE_BYTES,
            type |-> "image/png", bytes |-> <<1>>]
\* one byte over the limit
BigFile == [name |-> "big.png", size |-> MAX_FILE_SIZE_BYTES + 1,
            type |-> "image/png", bytes |-> <<2>>]
\* picked in the file dialog under "All files": accept="image/*" filters the
\* dialog's default view and checks nothing
PdfFile == [name |-> "report.pdf", size |-> 1024,
            type |-> "application/pdf", bytes |-> <<3>>]
UserFiles == { PngFile, BigFile, PdfFile }
\* the media types accept="image/*" stands for, among those of the files above
ImageTypes == { "image/png" }

\* chunks the provider streams
WebEntry(uri, title) == [web |-> Some([uri |-> Some(uri), title |-> title])]
NoUriEntry(title) == [web |-> Some([uri |-> None, title |-> title])]
NonWebEntry == [web |-> None]
StreamChunks ==
  { [text |-> Some(<<"x">>), grounding |-> Some(<<WebEntry("u1", "t1")>>)] }
\* the chunks of the Agent Client's specification: with and without text, with
\* and without grounding metadata, the same URI under two titles, entries
\* without a web part or without a URI
AgentChunks ==
  { [text |-> tx, grounding |-> gr] :
      tx \in { None, Some(<< >>), Some(<<"x">>), Some(<<"y", "z">>) },
      gr \in { None,
               Some(<<WebEntry("u1", "t1")>>),
               Some(<<WebEntry("u1", "t2"), WebEntry("u2", "t1")>>),
               Some(<<NonWebEntry, WebEntry("u2", "t2"), WebEntry("u2", "t3")>>),
               Some(<<NoUriEntry("t1"), NoUriEntry("t2")>>) } }
\* the messages and the ids of the Session Store's specification; id 0 is an
\* id of the caller's that createSession never returned
StoreMessages ==
  { Message(<<"m", 1>>, MessageRole.USER, <<"a">>, None, None),
    Message(<<"m", 2>>, MessageRole.ASSISTANT, <<"x">>, None, None) }
StoreIds == 0..MaxSessions

\* ------------------------------------------------------------------- state
VARIABLES
  sessions,        \* InMemorySessionService.sessions
  nextSessionId,   \* the next value of crypto.randomUUID() in createSession
  chatSessions,    \* AgentRunner.chatSessions
  nextChatId,      \* the identity of the next Chat created
  sessionState,    \* App's sessionState: sessionId, messages, status
  input,           \* ChatInput's input
  attachment,      \* ChatInput's staged attachment
  fileInputValue,  \* the selection held by the hidden file input
  readers,         \* FileReaders whose onloadend is still to come
  turns,           \* the handleSendMessage invocations, by number
  added,           \* per session id, the addMessage calls since its last clearSession
  selection        \* the file the user selected last among those accepted, and
                   \* whether one was accepted since the last removal or submission

vars == <<sessions, nextSessionId, chatSessions, nextChatId, sessionState,
          input, attachment, fileInputValue, readers, turns, added, selection>>

appVars == <<sessions, nextSessionId, chatSessions, nextChatId, sessionState, turns>>
inputVars == <<input, attachment, fileInputValue, readers, selection>>

\* the handleSendMessage invocations (turns) made so far; a turn record holds
\* the invocation's captured sessionId and locals, the state of its
\* call_agent_async generator, and for the properties the status it was
\* submitted at, the provider chunks it received and the responses yielded.
Turns == 1..Len(turns)

\* turns whose handleSendMessage has not reached its final status update
InFlight == { t \in 1..Len(turns) : turns[t].pc = "awaiting" }

RECURSIVE SumChunks(_)
SumChunks(ts) == IF ts = << >> THEN 0 ELSE Len(Head(ts).chunks) + SumChunks(Tail(ts))
\* provider chunks delivered so far
ChunksDelivered == SumChunks(turns)

\* initNewSession, from the store s
InitNewSession(s) ==
  /\ sessions' = addMessage(createSession(s, nextSessionId), nextSessionId,
                            Greeting(nextSessionId))
  /\ nextSessionId' = nextSessionId + 1
  /\ sessionState' = [sessionId |-> nextSessionId,
                      messages |-> <<Greeting(nextSessionId)>>,
                      status |-> "idle"]

\* the state once App has mounted and its effect has run initNewSession
Init ==
  /\ sessions = addMessage(createSession(<< >>, 1), 1, Greeting(1))
  /\ nextSessionId = 2
  /\ sessionState = [sessionId |-> 1, messages |-> <<Greeting(1)>>, status |-> "idle"]
  /\ chatSessions = << >>
  /\ nextChatId = 1
  /\ input = << >>
  /\ attachment = None
  /\ fileInputValue = None
  /\ readers = << >>
  /\ turns = << >>
  /\ added = [i \in StoreIds |-> IF i = 1 THEN <<Greeting(1)>> ELSE << >>]
  /\ selection = [latest |-> None, sinceClear |-> FALSE]

\* handleWipeSession
HandleWipeSession ==
  /\ nextSessionId <= MaxSessions
  /\ sessionState.sessionId # 0
  /\ chatSessions' = resetSession(chatSessions, sessionState.sessionId)
  /\ InitNewSession(clearSession(sessions, sessionState.sessionId))
  /\ added' = [added EXCEPT ![sessionState.sessionId] = << >>,
                            ![nextSessionId] = <<Greeting(nextSessionId)>>]
  /\ UNCHANGED <<nextChatId, turns, inputVars>>

\* handleSendMessage up to its first suspension: the user message is stored
\* and displayed, and the first next() of call_agent_async runs
\* getOrCreateChat and sends the payload.
HandleSendMessage(content, att) ==
  LET turn == Len(turns) + 1
      sid == sessionState.sessionId
      userMsg == UserMsg(turn, content, att)
      cs == getOrCreateChat(chatSessions, sid, nextChatId)
  IN  /\ sid # 0
      /\ sessions' = addMessage(sessions, sid, userMsg)
      /\ added' = [added EXCEPT ![sid] = Append(@, userMsg)]
      /\ sessionState' = [sessionState EXCEPT
                            !.messages = Append(@, userMsg),
                            !.status = "thinking"]
      /\ chatSessions' = cs
      /\ nextChatId' = IF sid \in DOMAIN chatSessions THEN nextChatId ELSE nextChatId + 1
      /\ turns' = Append(turns,
                    [sessionId |-> sid,
                     statusAtSubmit |-> sessionState.status,
                     pc |-> "awaiting",
                     chat |-> cs[sid],
                     messageContent |-> MessageContent(content, att),
                     chunks |-> << >>,
                     accumulatedText |-> << >>,
                     groundingChunks |-> << >>,
                     yielded |-> << >>,
                     isFirstChunk |-> TRUE,
                     currentAssistantMsg |-> EmptyAssistantMsg(turn)])
      /\ UNCHANGED nextSessionId

\* handleSubmit (the form's submit event, or Enter in the textarea)
HandleSubmit ==
  IF SubmitAllowed(input, attachment, Disabled(sessionState.status))
    THEN /\ HandleSendMessage(Trim(input), attachment)
         /\ input' = << >>
         /\ attachment' = None
         /\ selection' = [selection EXCEPT !.sinceClear = FALSE]
         /\ UNCHANGED <<fileInputValue, readers>>
    ELSE UNCHANGED vars

\* handleSubmit while at most maxTurns turns are made over the run
SubmitWithin(maxTurns) ==
  /\ SubmitAllowed(input, attachment, Disabled(sessionState.status))
       => Len(turns) < maxTurns
  /\ HandleSubmit

\* the textarea's onChange; the textarea is disabled with the composer
SetInput(text) ==
  /\ ~Disabled(sessionState.status)
  /\ text # input
  /\ input' = text
  /\ UNCHANGED <<appVars, added, attachment, fileInputValue, readers, selection>>

\* handleFileSelect, the file input's onChange: the browser has put the chosen
\* file in the input, and fires the event only when the selection changed.
\* The paperclip button that opens the dialog is disabled with the composer.
HandleFileSelect(file) ==
  /\ ~Disabled(sessionState.status)
  /\ fileInputValue # Some(file)
  /\ IF TooLarge(file)
       THEN /\ fileInputValue' = None
            /\ UNCHANGED <<readers, selection>>
       ELSE /\ Len(readers) < MaxPendingReads
            /\ fileInputValue' = Some(file)
            /\ readers' = Append(readers, file)
            /\ selection' = [latest |-> Some(file), sinceClear |-> TRUE]
  /\ UNCHANGED <<appVars, added, input, attachment>>

\* handleFileSelect when the dialog was closed without a file and the browser
\* emptied the selection: e.target.files is empty and the handler returns
HandleFileSelectNone ==
  /\ ~Disabled(sessionState.status)
  /\ fileInputValue # None
  /\ fileInputValue' = None
  /\ UNCHANGED <<appVars, added, input, attachment, readers, selection>>

\* reader.onloadend of the i-th pending FileReader
ReaderLoadEnd(i) ==
  /\ i \in 1..Len(readers)
  /\ attachment' = Some(LoadedAttachment(readers[i]))
  /\ readers' = SubSeq(readers, 1, i - 1) \o SubSeq(readers, i + 1, Len(readers))
  /\ UNCHANGED <<appVars, added, input, fileInputValue, selection>>

\* reader.onloadend of the i-th pending FileReader after a failed read:
\* reader.result is null, split throws in the handler and nothing is staged
ReaderLoadEndFailed(i) ==
  /\ i \in 1..Len(readers)
  /\ readers' = SubSeq(readers, 1, i - 1) \o SubSeq(readers, i + 1, Len(readers))
  /\ UNCHANGED <<appVars, added, input, attachment, fileInputValue, selection>>

\* removeAttachment, the button of the attachment preview
RemoveAttachment ==
  /\ IsSome(attachment)
  /\ attachment' = None
  /\ fileInputValue' = None
  /\ selection' = [selection EXCEPT !.sinceClear = FALSE]
  /\ UNCHANGED <<appVars, added, input, readers>>

\* One provider chunk reaches turn t: call_agent_async accumulates it and
\* yields the snapshot, and the loop body of handleSendMessage folds it.
\* (The yielded groundingChunks is the generator's own array; it changes only
\* in the step that yields it again, so each yield is recorded by value.)
ProviderChunk(t, chunk) ==
  /\ t \in InFlight
  /\ ChunksDelivered < MaxChunks
  /\ LET accumulatedText == AccumulateText(turns[t].accumulatedText, chunk)
         groundingChunks == AccumulateGrounding(turns[t].groundingChunks, chunk)
         response == AgentResponse(accumulatedText, groundingChunks)
         currentAssistantMsg == FoldSnapshot(turns[t].currentAssistantMsg, response)
     IN  /\ turns' = [turns EXCEPT ![t] =
                        [@ EXCEPT !.chunks = Append(@, chunk),
                                  !.accumulatedText = accumulatedText,
                                  !.groundingChunks = groundingChunks,
                                  !.yielded = Append(@, response),
                                  !.isFirstChunk = FALSE,
                                  !.currentAssistantMsg = currentAssistantMsg]]
         /\ sessionState' = [sessionState EXCEPT
                               !.status = IF turns[t].isFirstChunk THEN "streaming" ELSE @,
                               !.messages = Splice(@, currentAssistantMsg)]
  /\ UNCHANGED <<sessions, added, nextSessionId, chatSessions, nextChatId, inputVars>>

\* The provider ends the stream of turn t: the loop ends, the assistant
\* message is persisted and the status set idle.
ProviderEnd(t) ==
  /\ t \in InFlight
  /\ sessions' = addMessage(sessions, turns[t].sessionId, turns[t].currentAssistantMsg)
  /\ added' = [added EXCEPT ![turns[t].sessionId] = Append(@, turns[t].currentAssistantMsg)]
  /\ sessionState' = [sessionState EXCEPT !.status = "idle"]
  /\ turns' = [turns EXCEPT ![t].pc = "done"]
  /\ UNCHANGED <<nextSessionId, chatSessions, nextChatId, inputVars>>

\* The send or the stream of turn t fails: call_agent_async rethrows and the
\* catch of handleSendMessage stores and displays the error message.
ProviderFail(t) ==
  /\ t \in InFlight
  /\ sessions' = addMessage(sessions, turns[t].sessionId, ErrorMsg(t))
  /\ added' = [added EXCEPT ![turns[t].sessionId] = Append(@, ErrorMsg(t))]
  /\ sessionState' = ErrorUpdate(sessionState, ErrorMsg(t))
  /\ turns' = [turns EXCEPT ![t].pc = "failed"]
  /\ UNCHANGED <<nextSessionId, chatSessions, nextChatId, inputVars>>

\* ---------------------------------------------------------- specifications
\* The Conversation Controller with the Session Store and the Agent Client,
\* driven by the composer's text.
Next ==
  \/ SubmitWithin(MaxTurns)
  \/ HandleWipeSession
  \/ \E text \in UserInputs : SetInput(text)
  \/ \E t \in 1..Len(turns), chunk \in StreamChunks : ProviderChunk(t, chunk)
  \/ \E t \in 1..Len(turns) : ProviderEnd(t)
  \/ \E t \in 1..Len(turns) : ProviderFail(t)

Spec == Init /\ [][Next]_vars

\* The Conversation Controller when the provider ends or fails every stream it
\* opens, and the runtime resumes handleSendMessage when it does: each turn's
\* end-or-failure step is taken if it stays enabled.
NextLive ==
  \/ SubmitWithin(MaxLiveTurns)
  \/ HandleWipeSession
  \/ \E text \in UserInputs : SetInput(text)
  \/ \E t \in 1..Len(turns), chunk \in StreamChunks : ProviderChunk(t, chunk)
  \/ \E t \in 1..Len(turns) : ProviderEnd(t)
  \/ \E t \in 1..Len(turns) : ProviderFail(t)

SpecLive ==
  /\ Init
  /\ [][NextLive]_vars
  /\ \A t \in 1..MaxLiveTurns : WF_vars(ProviderEnd(t) \/ ProviderFail(t))

\* The composer: text, file selection and staging, submission, around the
\* turns it submits.
NextComposer ==
  \/ SubmitWithin(MaxComposerTurns)
  \/ \E text \in UserInputs : SetInput(text)
  \/ \E file \in { PngFile } : HandleFileSelect(file)
  \/ HandleFileSelectNone
  \/ \E i \in 1..Len(readers) : ReaderLoadEnd(i)
  \/ \E i \in 1..Len(readers) : ReaderLoadEndFailed(i)
  \/ RemoveAttachment
  \/ \E t \in 1..Len(turns), chunk \in StreamChunks : ProviderChunk(t, chunk)
  \/ \E t \in 1..Len(turns) : ProviderEnd(t)
  \/ \E t \in 1..Len(turns) : ProviderFail(t)

SpecComposer == Init /\ [][NextComposer]_vars

\* The composer's file selection: files of every kind selected, read, staged,
\* removed and submitted, around a turn that ends or fails.
NextFiles ==
  \/ SubmitWithin(MaxFileTurns)
  \/ \E text \in UserInputs : SetInput(text)
  \/ \E file \in UserFiles : HandleFileSelect(file)
  \/ HandleFileSelectNone
  \/ \E i \in 1..Len(readers) : ReaderLoadEnd(i)
  \/ \E i \in 1..Len(readers) : ReaderLoadEndFailed(i)
  \/ RemoveAttachment
  \/ \E t \in 1..Len(turns) : ProviderEnd(t)
  \/ \E t \in 1..Len(turns) : ProviderFail(t)

SpecFiles == Init /\ [][NextFiles]_vars

\* One turn of the Agent Client, fed every kind of provider chunk.
NextAgent ==
  \/ SubmitWithin(1)
  \/ \E text \in UserInputs : SetInput(text)
  \/ \E t \in 1..Len(turns), chunk \in AgentChunks : ProviderChunk(t, chunk)
  \/ \E t \in 1..Len(turns) : ProviderEnd(t)
  \/ \E t \in 1..Len(turns) : ProviderFail(t)

SpecAgent == Init /\ [][NextAgent]_vars

\* The Session Store under any caller.
StoreCreateSession ==
  /\ nextSessionId <= MaxSessions
  /\ sessions' = createSession(sessions, nextSessionId)
  /\ added' = [added EXCEPT ![nextSessionId] = << >>]
  /\ nextSessionId' = nextSessionId + 1
  /\ UNCHANGED <<chatSessions, nextChatId, sessionState, turns, inputVars>>

StoreAddMessage(sessionId, message) ==
  /\ Len(getHistory(sessions, sessionId)) < MaxHistory
  /\ sessions' = addMessage(sessions, sessionId, message)
  /\ added' = [added EXCEPT ![sessionId] = Append(@, message)]
  /\ UNCHANGED <<nextSessionId, chatSessions, nextChatId, sessionState, turns, inputVars>>

StoreClearSession(sessionId) ==
  /\ sessions' = clearSession(sessions, sessionId)
  /\ added' = [added EXCEPT ![sessionId] = << >>]
  /\ UNCHANGED <<nextSessionId, chatSessions, nextChatId, sessionState, turns, inputVars>>

NextStore ==
  \/ StoreCreateSession
  \/ \E id \in StoreIds, m \in StoreMessages : StoreAddMessage(id, m)
  \/ \E id \in StoreIds : StoreClearSession(id)

SpecStore == Init /\ [][NextStore]_vars

\* The Agent Client's handle cache under any caller: call_agent_async up to
\* its first suspension (getOrCreateChat, the payload, the send), and
\* resetSession, for any session id.
RunnerCall(sessionId, userInput) ==
  LET cs == getOrCreateChat(chatSessions, sessionId, nextChatId)
  IN  /\ Len(turns) < MaxRunnerCalls
      /\ chatSessions' = cs
      /\ nextChatId' = IF sessionId \in DOMAIN chatSessions THEN nextChatId ELSE nextChatId + 1
      /\ turns' = Append(turns,
                    [sessionId |-> sessionId,
                     statusAtSubmit |-> sessionState.status,
                     pc |-> "awaiting",
                     chat |-> cs[sessionId],
                     messageContent |-> MessageContent(userInput, None),
                     chunks |-> << >>,
                     accumulatedText |-> << >>,
                     groundingChunks |-> << >>,
                     yielded |-> << >>,
                     isFirstChunk |-> TRUE,
                     currentAssistantMsg |-> EmptyAssistantMsg(Len(turns) + 1)])
      /\ UNCHANGED <<sessions, added, nextSessionId, sessionState, inputVars>>

RunnerReset(sessionId) ==
  /\ chatSessions' = resetSession(chatSessions, sessionId)
  /\ UNCHANGED <<sessions, added, nextSessionId, nextChatId, sessionState, turns, inputVars>>

NextRunner ==
  \/ \E id \in StoreIds : RunnerCall(id, <<"a">>)
  \/ \E id \in StoreIds : RunnerReset(id)

SpecRunner == Init /\ [][NextRunner]_vars


\* -------------------------------------------------------------- properties
status == sessionState.status
messages == sessionState.messages

IsPrefix(a, b) == Len(a) <= Len(b) /\ SubSeq(b, 1, Len(a)) = a

Last(seq) == seq[Len(seq)]

\* the ids of the messages of a sequence
Ids(seq) == { seq[i].id : i \in 1..Len(seq) }

\* the concatenation of the texts of provider chunks, in order
RECURSIVE ConcatTexts(_)
ConcatTexts(cs) ==
  IF cs = << >> THEN << >>
  ELSE (IF Head(cs).text = None THEN << >> ELSE Head(cs).text[1]) \o ConcatTexts(Tail(cs))

\* turn t fails, ends, receives a chunk in the step
Fails(t) == t \in Turns /\ turns[t].pc = "awaiting" /\ turns'[t].pc = "failed"
Ends(t) == t \in Turns /\ turns[t].pc = "awaiting" /\ turns'[t].pc = "done"
Snapshots(t) == t \in Turns /\ Len(turns'[t].yielded) = Len(turns[t].yielded) + 1
Submits == Len(turns') = Len(turns) + 1
Resets == sessionState'.sessionId # sessionState.sessionId

\* C1: a reset, in whatever state it is triggered, removes the active session's
\* id from the Session Store and from the handle cache and makes a fresh session
\* active whose stored history and displayed transcript are exactly one
\* assistant greeting message, with status idle.
C1_ResetStartsFreshSession ==
  [][Resets =>
       LET old == sessionState.sessionId
           new == sessionState'.sessionId
       IN  /\ old \notin DOMAIN sessions'
           /\ old \notin DOMAIN chatSessions'
           /\ new \notin DOMAIN sessions
           /\ new \in DOMAIN sessions'
           /\ Len(sessions'[new]) = 1
           /\ sessions'[new][1].role = "assistant"
           /\ sessions'[new][1].content = GreetingText
           /\ sessionState'.messages = sessions'[new]
           /\ sessionState'.status = "idle"]_vars

\* a reset has just been made while a turn of the old session was streaming
C1_Witness ==
  /\ sessionState.sessionId = 2
  /\ messages = <<Greeting(2)>> /\ sessions[2] = <<Greeting(2)>>
  /\ status = "idle"
  /\ 1 \notin DOMAIN sessions /\ 1 \notin DOMAIN chatSessions
  /\ \E t \in InFlight : turns[t].sessionId = 1 /\ Len(turns[t].yielded) > 0

\* C2 (as claimed): at most one turn is in flight for a session id at any time.
C2_OneTurnInFlightPerSession ==
  \A t1, t2 \in InFlight : turns[t1].sessionId = turns[t2].sessionId => t1 = t2

\* C3 (as claimed): the status changes only along idle -> thinking,
\* thinking -> streaming, streaming -> idle and thinking -> error, and becomes
\* streaming only when a snapshot of a turn has been produced.
C3_FourTransitionsOnly ==
  [][status' # status =>
       /\ <<status, status'>> \in { <<"idle", "thinking">>, <<"thinking", "streaming">>,
                                   <<"streaming", "idle">>, <<"thinking", "error">> }
       /\ status' = "streaming" => \E t \in Turns : Snapshots(t)]_vars

\* C3 (amended): the status becomes thinking only from idle or error and by a
\* submission, streaming only in a step in which a turn's first snapshot is
\* produced, idle only when a stream completes or by a reset, error only when a
\* turn fails.
C3_StatusChangesByStep ==
  [][status' # status =>
       /\ status' \in {"idle", "thinking", "streaming", "error"}
       /\ status' = "thinking" => status \in {"idle", "error"} /\ Submits
       /\ status' = "streaming" =>
            \E t \in Turns : Snapshots(t) /\ Len(turns'[t].yielded) = 1
       /\ status' = "idle" => Resets \/ \E t \in Turns : Ends(t)
       /\ status' = "error" => \E t \in Turns : Fails(t)]_vars

\* every kind of status change has happened: a failed turn was followed by a
\* turn that streamed and completed
C3_Witness ==
  /\ status = "idle"
  /\ \E t1, t2 \in Turns :
       /\ turns[t1].pc = "failed"
       /\ turns[t2].pc = "done" /\ turns[t2].statusAtSubmit = "error"
       /\ Len(turns[t2].yielded) > 0

\* C4 (as claimed): when a turn fails after a snapshot of it was displayed, the
\* displayed transcript after the failure no longer contains the turn's partial
\* assistant message.
C4_PartialSuperseded ==
  [][\A t \in Turns :
       Fails(t) /\ turns[t].currentAssistantMsg.id \in Ids(messages)
         => turns[t].currentAssistantMsg.id \notin Ids(sessionState'.messages)]_vars

\* C4 (amended): when a turn fails after a snapshot of it was displayed, the
\* failure appends the system error message to the displayed transcript and
\* removes nothing from it, so the partial assistant message stays displayed,
\* before the error message; the partial message is only kept out of the
\* Session Store.
C4_PartialKeptOnDisplay ==
  [][\A t \in Turns :
       Fails(t) /\ turns[t].currentAssistantMsg.id \in Ids(messages)
         => /\ Len(sessionState'.messages) = Len(messages) + 1
            /\ SubSeq(sessionState'.messages, 1, Len(messages)) = messages
            /\ Last(sessionState'.messages).role = "system"
            /\ Last(sessionState'.messages).content = ErrorText
            /\ \A id \in DOMAIN sessions' :
                 turns[t].currentAssistantMsg.id \notin Ids(sessions'[id])]_vars

\* a turn has failed after a snapshot: its partial text is displayed right
\* before the error message and is not in the store
C4_Witness ==
  \E t \in Turns :
    /\ turns[t].pc = "failed" /\ Len(turns[t].yielded) > 0
    /\ Len(messages) >= 2
    /\ messages[Len(messages) - 1] = turns[t].currentAssistantMsg
    /\ messages[Len(messages) - 1].content # << >>
    /\ Last(messages) = ErrorMsg(t)
    /\ turns[t].currentAssistantMsg.id \notin Ids(getHistory(sessions, turns[t].sessionId))

\* C5 (as claimed): when a turn fails before any snapshot, the turn has added
\* no assistant message to the displayed transcript or to the Session Store;
\* the failure appends exactly one system message with the fixed error text to
\* both, after the turn's user message, and the status becomes error.
C5_FailureBeforeAnySnapshot ==
  [][\A t \in Turns :
       Fails(t) /\ turns[t].yielded = << >>
         => LET sid == turns[t].sessionId
                old == getHistory(sessions, sid)
            IN  /\ Len(sessionState'.messages) = Len(messages) + 1
                /\ SubSeq(sessionState'.messages, 1, Len(messages)) = messages
                /\ Last(sessionState'.messages).role = "system"
                /\ Last(sessionState'.messages).content = ErrorText
                /\ Len(sessions'[sid]) = Len(old) + 1
                /\ SubSeq(sessions'[sid], 1, Len(old)) = old
                /\ Last(sessions'[sid]) = Last(sessionState'.messages)
                /\ <<"assistant", t>> \notin Ids(sessionState'.messages)
                /\ \A id \in DOMAIN sessions' : <<"assistant", t>> \notin Ids(sessions'[id])
                /\ <<"user", t>> \in Ids(messages)
                /\ <<"user", t>> \in Ids(old)
                /\ sessionState'.status = "error"]_vars

\* a turn has failed before any snapshot after its session was reset: the
\* error message is displayed in the new session and stored under the old id,
\* and the turn's user message is in neither
C5_ErrorAfterResetState ==
  \E t \in Turns :
    /\ turns[t].pc = "failed" /\ turns[t].yielded = << >>
    /\ turns[t].sessionId # sessionState.sessionId
    /\ messages = <<Greeting(sessionState.sessionId), ErrorMsg(t)>>
    /\ getHistory(sessions, turns[t].sessionId) = <<ErrorMsg(t)>>

\* C6 (as claimed): when the stream of a turn submitted at status idle
\* completes, the assistant message persisted has the concatenation of the
\* chunk texts as its text, is the last message displayed, and the status is
\* then idle.
C6_CompletedTurn ==
  [][\A t \in Turns :
       Ends(t) /\ turns[t].statusAtSubmit = "idle"
         => LET persisted == Last(sessions'[turns[t].sessionId])
            IN  /\ persisted.id = <<"assistant", t>>
                /\ persisted.content = ConcatTexts(turns[t].chunks)
                /\ Last(sessionState'.messages) = persisted
                /\ sessionState'.status = "idle"]_vars

\* a first turn submitted at idle has completed without any chunk: an empty
\* assistant message is stored that was never displayed
C6_EmptyStreamState ==
  /\ Len(turns) = 1 /\ turns[1].pc = "done" /\ turns[1].chunks = << >>
  /\ Last(sessions[1]).role = "assistant" /\ Last(sessions[1]).content = << >>
  /\ Last(messages).role = "user"

\* C7: a turn is submitted only if the trimmed input text is non-empty or an
\* attachment is staged, and only while the status is neither thinking nor
\* streaming; a submit attempt that submits no turn leaves the Session Store,
\* the displayed transcript, the status, the input text and the staged
\* attachment unchanged.
C7_SubmitOnlyWhenAllowed ==
  [][/\ Submits =>
          /\ (\E i \in 1..Len(input) : input[i] \notin Whitespace) \/ attachment # None
          /\ status \notin {"thinking", "streaming"}
          /\ Last(turns').statusAtSubmit = status
          /\ Last(sessionState'.messages).content = Trim(input)
          /\ Last(sessionState'.messages).attachment = attachment
     /\ HandleSubmit /\ ~Submits =>
          UNCHANGED <<sessions, sessionState, input, attachment>>]_vars

\* a turn has been submitted with an attachment and no text, and a text of
\* whitespace only sits unsubmitted in the composer while the status is error
C7_Witness ==
  /\ \E i \in 1..Len(messages) :
       /\ messages[i].role = "user"
       /\ messages[i].content = << >>
       /\ messages[i].attachment # None
  /\ input = <<" ">> /\ attachment = None
  /\ status = "error"

\* the list of citations of a response
Citations(response) ==
  IF response.groundingChunks = None THEN << >> ELSE response.groundingChunks[1]

\* the web entries the provider delivered in a sequence of chunks, in order
RECURSIVE DeliveredWeb(_)
DeliveredWeb(cs) ==
  IF cs = << >> THEN << >>
  ELSE (IF Head(cs).grounding = None THEN << >>
        ELSE SelectSeq(Head(cs).grounding[1], LAMBDA e : e.web # None))
       \o DeliveredWeb(Tail(cs))

UriOf(e) == e.web[1].uri

\* the place of the first entry with the URI of e in a sequence of web entries
FirstPlace(flat, e) ==
  CHOOSE p \in 1..Len(flat) :
    /\ UriOf(flat[p]) = UriOf(e)
    /\ \A q \in 1..(p - 1) : UriOf(flat[q]) # UriOf(e)

\* C8: the k-th response yielded by call_agent_async has as text the
\* concatenation of the texts of the first k provider chunks (a chunk without
\* text counting as the empty string), so each response's text extends the
\* previous one's.
C8_SnapshotIsConcatenation ==
  \A t \in Turns :
    /\ Len(turns[t].yielded) = Len(turns[t].chunks)
    /\ \A k \in 1..Len(turns[t].yielded) :
         /\ turns[t].yielded[k].text = ConcatTexts(SubSeq(turns[t].chunks, 1, k))
         /\ k > 1 => IsPrefix(turns[t].yielded[k - 1].text, turns[t].yielded[k].text)

\* two responses were yielded, the first with a text and the second for a
\* chunk without text
C8_Witness ==
  \E t \in Turns :
    /\ Len(turns[t].yielded) = 2
    /\ turns[t].chunks[1].text = Some(<<"y", "z">>)
    /\ turns[t].chunks[2].text = None
    /\ turns[t].yielded[2].text = <<"y", "z">>

\* C9: in every response yielded by call_agent_async the citation list holds
\* each source URI at most once, the entry kept for a URI is the first one the
\* provider delivered with it in the turn, every delivered URI is kept, entries
\* are in first-seen order, and no entry of an earlier response is removed or
\* moved.
C9_CitationsDeduplicatedByUri ==
  \A t \in Turns :
    \A k \in 1..Len(turns[t].yielded) :
      LET list == Citations(turns[t].yielded[k])
          flat == DeliveredWeb(SubSeq(turns[t].chunks, 1, k))
      IN  /\ \A i, j \in 1..Len(list) : UriOf(list[i]) = UriOf(list[j]) => i = j
          /\ \A i \in 1..Len(list) :
               /\ \E p \in 1..Len(flat) : UriOf(flat[p]) = UriOf(list[i])
               /\ list[i] = flat[FirstPlace(flat, list[i])]
          /\ \A p \in 1..Len(flat) : \E i \in 1..Len(list) : UriOf(list[i]) = UriOf(flat[p])
          /\ \A i, j \in 1..Len(list) :
               i < j => FirstPlace(flat, list[i]) < FirstPlace(flat, list[j])
          /\ k > 1 => IsPrefix(Citations(turns[t].yielded[k - 1]), list)

\* the same URI was delivered in two chunks under two titles, and the final
\* response keeps it once, with the first title
C9_Witness ==
  \E t \in Turns :
    /\ Len(turns[t].yielded) = 2
    /\ turns[t].chunks[1].grounding = Some(<<WebEntry("u1", "t1")>>)
    /\ turns[t].chunks[2].grounding = Some(<<WebEntry("u1", "t2"), WebEntry("u2", "t1")>>)
    /\ Citations(turns[t].yielded[2]) = <<WebEntry("u1", "t1"), WebEntry("u2", "t1")>>

\* C10: for every session id, getHistory returns exactly the messages of the
\* addMessage calls made on that id since its last clearSession, in call order;
\* calls on other ids do not change it.
C10_HistoryIsCallOrder ==
  \A id \in StoreIds : getHistory(sessions, id) = added[id]

\* the same message was added twice to one session, and messages were added
\* to another session in between
C10_Witness ==
  \E id, other \in StoreIds, m1, m2 \in StoreMessages :
    /\ id # other /\ m1 # m2
    /\ getHistory(sessions, id) = <<m2, m1>>
    /\ getHistory(sessions, other) = <<m1, m1>>

\* C11: after clearSession(id), getHistory(id) returns the empty sequence
\* whatever the session held before, and the history of every other session
\* id is unchanged.
C11_ClearSessionFrame ==
  [][\A id \in StoreIds :
       StoreClearSession(id) =>
         /\ getHistory(sessions', id) = << >>
         /\ \A other \in StoreIds \ {id} :
              /\ getHistory(sessions', other) = getHistory(sessions, other)
              /\ other \in DOMAIN sessions' <=> other \in DOMAIN sessions]_vars

\* session 1 has been cleared of its messages while two other sessions keep
\* the two messages each of them holds
C11_Witness ==
  /\ 1 \notin DOMAIN sessions
  /\ getHistory(sessions, 1) = << >>
  /\ Len(added[1]) = 0
  /\ \A other \in StoreIds \ {1} : Len(getHistory(sessions, other)) = 2

\* C12: for a session id the store does not hold (never created, or cleared),
\* getHistory returns the empty sequence, and addMessage registers the id with
\* a history of exactly that one message, leaving the other sessions alone.
C12_UnknownSessionId ==
  /\ [](\A id \in StoreIds : id \notin DOMAIN sessions => getHistory(sessions, id) = << >>)
  /\ [][\A id \in StoreIds, m \in StoreMessages :
          StoreAddMessage(id, m) /\ id \notin DOMAIN sessions =>
            /\ DOMAIN sessions' = DOMAIN sessions \cup {id}
            /\ sessions'[id] = <<m>>
            /\ \A other \in DOMAIN sessions : sessions'[other] = sessions[other]]_vars

\* a message was added under an id createSession never returned, and another
\* under the id of a cleared session: each id holds that message alone
C12_Witness ==
  \E m1, m2 \in StoreMessages :
    /\ 0 \in DOMAIN sessions /\ sessions[0] = <<m1>>
    /\ 1 \in DOMAIN sessions /\ sessions[1] = <<m2>>

\* the latest turn made for a session id
LatestTurn(id) ==
  CHOOSE t \in Turns :
    turns[t].sessionId = id /\ \A u \in Turns : turns[u].sessionId = id => u <= t

\* C13: the Agent Client caches at most one handle per session id and no
\* handle under two ids; a call for an id with a cached handle uses that handle
\* and leaves the cache unchanged, a call for an id without one creates a
\* handle no earlier turn used and caches it; only resetSession(id) removes the
\* handle of id, and it removes no other; so the handle cached for an id is
\* the one its latest turn used.
C13_OneHandlePerSession ==
  /\ [](\A id \in DOMAIN chatSessions :
          /\ \E t \in Turns : turns[t].sessionId = id
          /\ chatSessions[id] = turns[LatestTurn(id)].chat
          /\ \A other \in DOMAIN chatSessions :
               chatSessions[other] = chatSessions[id] => other = id)
  /\ [][\A id \in StoreIds :
          /\ Submits /\ Last(turns').sessionId = id =>
               IF id \in DOMAIN chatSessions
                 THEN /\ chatSessions' = chatSessions
                      /\ Last(turns').chat = chatSessions[id]
                 ELSE /\ \A t \in Turns : turns[t].chat # Last(turns').chat
                      /\ DOMAIN chatSessions' = DOMAIN chatSessions \cup {id}
                      /\ chatSessions'[id] = Last(turns').chat
                      /\ \A other \in DOMAIN chatSessions :
                           chatSessions'[other] = chatSessions[other]
          /\ RunnerReset(id) =>
               /\ DOMAIN chatSessions' = DOMAIN chatSessions \ {id}
               /\ \A other \in DOMAIN chatSessions' :
                    chatSessions'[other] = chatSessions[other]
          /\ id \in DOMAIN chatSessions /\ ~RunnerReset(id) =>
               id \in DOMAIN chatSessions' /\ chatSessions'[id] = chatSessions[id]]_vars

\* two turns of a session used one handle, the session's handle was reset, and
\* its next turn used a new handle, which is the one now cached
C13_Witness ==
  \E t1, t2, t3 \in Turns :
    /\ t1 < t2 /\ t2 < t3
    /\ turns[t1].sessionId = turns[t2].sessionId
    /\ turns[t2].sessionId = turns[t3].sessionId
    /\ \A u \in Turns : t1 < u /\ u < t3 => u = t2
    /\ turns[t1].chat = turns[t2].chat
    /\ turns[t3].chat # turns[t2].chat
    /\ turns[t3].sessionId \in DOMAIN chatSessions
    /\ chatSessions[turns[t3].sessionId] = turns[t3].chat

\* the attachments carried by the messages of a sequence
Attachments(seq) ==
  { seq[i].attachment[1] : i \in { j \in 1..Len(seq) : seq[j].attachment # None } }

\* C14: handleFileSelect accepts a file (starts reading it, to stage it) if
\* and only if its size is at most 5 * 1024 * 1024 bytes, a file of exactly that
\* size being accepted; selecting a larger file leaves the staged attachment
\* and the pending reads unchanged and empties the file-selection control, and
\* a larger file is never read or staged.
C14_SizeLimit ==
  /\ [](\A f \in UserFiles :
          f.size > 5 * 1024 * 1024 =>
            /\ attachment # Some(LoadedAttachment(f))
            /\ \A i \in 1..Len(readers) : readers[i] # f)
  /\ [][\A f \in UserFiles :
          HandleFileSelect(f) =>
            IF f.size <= 5 * 1024 * 1024
              THEN /\ readers' = Append(readers, f)
                   /\ fileInputValue' = Some(f)
              ELSE /\ attachment' = attachment
                   /\ readers' = readers
                   /\ fileInputValue' = None]_vars

\* the file of exactly 5 MiB is staged and nothing is being read, and the
\* file-selection control is empty, as after a larger file was selected next
C14_Witness ==
  /\ PngFile.size = 5 * 1024 * 1024
  /\ attachment = Some(LoadedAttachment(PngFile))
  /\ readers = << >>
  /\ fileInputValue = None

\* C15 (as claimed): the selection of a file of accepted size and the explicit
\* removal each leave the file-selection control empty; removal clears the
\* staged attachment and the end of a read puts the file read in its place.
C15_ControlResetAfterSelectAndRemoval ==
  [][/\ \A f \in UserFiles : HandleFileSelect(f) => fileInputValue' = None
     /\ RemoveAttachment => attachment' = None /\ fileInputValue' = None
     /\ \A i \in 1..Len(readers) :
          ReaderLoadEnd(i) => attachment' = Some(LoadedAttachment(readers[i]))]_vars

\* a file was staged and submitted with a turn that has ended: nothing is
\* staged or being read and the composer is enabled, and the file-selection
\* control still holds the file, so that selecting it again changes nothing
C15_SameFileNotReselectable ==
  /\ attachment = None /\ readers = << >>
  /\ status = "idle" /\ InFlight = {}
  /\ fileInputValue = Some(PngFile)
  /\ LoadedAttachment(PngFile) \in Attachments(messages)

\* C17 (as claimed): the staged attachment, the attachment of every message
\* displayed or stored, and the inline data of every payload sent to the
\* provider have an image media type.
C17_AttachmentsAreImages ==
  /\ attachment # None => attachment[1].mimeType \in ImageTypes
  /\ \A a \in Attachments(messages) : a.mimeType \in ImageTypes
  /\ \A id \in DOMAIN sessions :
       \A a \in Attachments(sessions[id]) : a.mimeType \in ImageTypes
  /\ \A t \in Turns :
       turns[t].messageContent.inlineData # None =>
         turns[t].messageContent.inlineData[1].mimeType \in ImageTypes

\* a PDF file was staged and submitted: the user message carries it and the
\* payload sent to the provider holds it as inline data
C17_PdfSentState ==
  \E t \in Turns :
    /\ turns[t].messageContent.inlineData =
         Some([mimeType |-> "application/pdf", data |-> LoadedAttachment(PdfFile).base64])
    /\ LoadedAttachment(PdfFile) \in Attachments(getHistory(sessions, turns[t].sessionId))

\* C16 (as claimed): a snapshot update of a turn appends the turn's assistant
\* message when the last displayed message is the turn's user message, and
\* otherwise replaces the last displayed message, which is then the turn's own
\* assistant message of an earlier snapshot; every other position of the
\* displayed transcript is unchanged.
C16_SnapshotChangesOwnMessage ==
  [][\A t \in Turns :
       Snapshots(t) =>
         LET new == sessionState'.messages
             assistantMsg == turns'[t].currentAssistantMsg
         IN  IF Last(messages).id = <<"user", t>>
               THEN new = Append(messages, assistantMsg)
               ELSE /\ Last(messages).id = <<"assistant", t>>
                    /\ new = [messages EXCEPT ![Len(messages)] = assistantMsg]]_vars

\* the greeting of the second session has been replaced by the assistant
\* message of a turn of the first session
C16_GreetingReplacedState ==
  /\ sessionState.sessionId = 2
  /\ Len(messages) = 1
  /\ \E t \in Turns : turns[t].sessionId = 1 /\ messages[1].id = <<"assistant", t>>

\* C18 (as claimed): whenever the status is idle and no turn is in flight, the
\* displayed transcript equals the Session Store's history of the active
\* session.
C18_TranscriptEqualsHistory ==
  status = "idle" /\ InFlight = {}
    => messages = getHistory(sessions, sessionState.sessionId)

\* status idle, no turn in flight, no reset made: the partial assistant
\* message of a failed turn is displayed and is not in the store
C18_PartialDisplayedOnlyState ==
  /\ status = "idle" /\ InFlight = {}
  /\ sessionState.sessionId = 1
  /\ \E t \in Turns :
       /\ turns[t].pc = "failed"
       /\ turns[t].currentAssistantMsg.id \in Ids(messages)
       /\ turns[t].currentAssistantMsg.id \notin Ids(getHistory(sessions, 1))

\* C19 (as claimed): a session id that was reset is absent from the Session
\* Store ever after (the ids created so far, other than the active one, are the
\* ids that were reset).
C19_ResetIdStaysAbsent ==
  \A id \in 1..(nextSessionId - 1) :
    id # sessionState.sessionId => id \notin DOMAIN sessions

\* the first session was reset while its turn was in flight, the turn's stream
\* has ended since, and the store holds the first session's id again with the
\* turn's assistant message alone
C19_ResetIdBackState ==
  /\ sessionState.sessionId = 2
  /\ 1 \in DOMAIN sessions
  /\ \E t \in Turns :
       /\ turns[t].sessionId = 1 /\ turns[t].pc = "done"
       /\ sessions[1] = <<turns[t].currentAssistantMsg>>

\* C20 (as claimed): a step of a turn (a snapshot, the end of its stream, its
\* failure) whose session is no longer the active one leaves the displayed
\* transcript and the status unchanged.
C20_StaleTurnChangesNothing ==
  [][\A t \in Turns :
       /\ Snapshots(t) \/ Ends(t) \/ Fails(t)
       /\ turns[t].sessionId # sessionState.sessionId
       => /\ sessionState'.messages = messages
          /\ sessionState'.status = status]_vars

\* the status is streaming in a session in which no turn was submitted
C20_StreamingWithoutTurnState ==
  /\ status = "streaming"
  /\ \A t \in Turns : turns[t].sessionId # sessionState.sessionId

\* C21 (as claimed): once no file read is pending, the staged attachment is
\* empty or the content of the file the user selected last among the accepted
\* ones; and from an explicit removal or a submission until the next accepted
\* selection, no attachment is staged.
C21_StagedIsLatestSelection ==
  /\ readers = << >> /\ attachment # None =>
       /\ selection.latest # None
       /\ attachment = Some(LoadedAttachment(selection.latest[1]))
  /\ ~selection.sinceClear => attachment = None

\* a file was selected and a text submitted before its read ended: the file is
\* staged while the turn is awaiting the provider, no file having been
\* selected since the submission
C21_StagedAfterSubmitState ==
  /\ attachment # None
  /\ ~selection.sinceClear
  /\ status = "thinking"
  /\ \E t \in InFlight : turns[t].messageContent.inlineData = None

\* C22: when the provider ends or fails every stream it opens, every turn in
\* flight eventually finishes, a status of thinking or streaming eventually
\* gives way to idle or error (the composer is enabled again), and the status
\* is never thinking or streaming while no turn is in flight.
C22_TurnsFinish ==
  /\ \A t \in 1..MaxLiveTurns : (t \in InFlight) ~> (t \notin InFlight)
  /\ (status \in {"thinking", "streaming"}) ~> (status \in {"idle", "error"})
  /\ [](InFlight = {} => status \notin {"thinking", "streaming"})

\* two turns have finished, one by the end of its stream after a snapshot and
\* one by a failure, no turn is in flight and the composer is enabled
C22_Witness ==
  /\ InFlight = {}
  /\ ~Disabled(status)
  /\ \E t1, t2 \in Turns :
       /\ turns[t1].pc = "done" /\ Len(turns[t1].yielded) > 0
       /\ turns[t1].statusAtSubmit = "idle"
       /\ turns[t2].pc = "failed"

====
